---- MODULE Spec2Model ----
(***************************************************************************)
(* Model of src/src/App.tsx, the Tebak Kata word-guessing game (a single   *)
(* React function component).                                              *)
(*                                                                         *)
(* The five useState cells are the program state.  An event handler and    *)
(* the render that follows its state updates form one step.  The passive   *)
(* effects of a commit (the keydown listener registration, lines 68-76,    *)
(* and the win check, lines 89-108) run in a later step, RunEffects, as    *)
(* useEffect callbacks do; the window keydown listener keeps the closure   *)
(* of the render whose effect registered it until the effects run again.   *)
(*                                                                         *)
(* Strings are sequences of one-character strings, so that toUpperCase,    *)
(* split, includes and filter are computed, not assumed.                   *)
(***************************************************************************)
EXTENDS Integers, Sequences, FiniteSets, TLC

VARIABLES
    gameState,          \* 'start' | 'playing' | 'won'            (line 36)
    currentWordIndex,   \* index into WORDS, 0-based              (line 37)
    guessedLetters,     \* Set<string>                            (line 38)
    startTime,          \* number | null                          (line 39)
    totalTime,          \* number                                 (line 40)
    now,                \* Date.now(), milliseconds
    effectsPending,     \* the last commit changed an effect dependency and
                        \* its passive effects have not run yet
    listenerState,      \* gameState in the closure of the registered
                        \* window keydown listener
    confettiLog,        \* word indices for which confetti() fired since the
                        \* last handleStart
    totalTimeSets,      \* number of setTotalTime calls of the win check since
                        \* the last handleStart
    lastEvent           \* the event handled by the last step

vars == <<gameState, currentWordIndex, guessedLetters, startTime, totalTime,
          now, effectsPending, listenerState, confettiLog, totalTimeSets,
          lastEvent>>

reactState == <<gameState, currentWordIndex, guessedLetters, startTime, totalTime>>

----------------------------------------------------------------------------
(* Bounds of the model *)

\* the clock advances at most MaxTicks times, TickMs milliseconds each time
MaxTicks == 3
TickMs == 500
\* confettiLog records at most MaxLog celebrations
MaxLog == 3

----------------------------------------------------------------------------
(* Data: lines 12-33 *)

\* Two consecutive entries of the word list (lines 22-23): a word without
\* and a word with a repeated letter.
WORDS ==
    << [word |-> <<"T", "H", "R">>, hint |-> "Uang yang dibagikan saat Lebaran"],
       [word |-> <<"O", "P", "O", "R">>, hint |-> "Hidangan ayam bersantan khas Lebaran"] >>

QWERTY_ROWS ==
    << <<"Q", "W", "E", "R", "T", "Y", "U", "I", "O", "P">>,
       <<"A", "S", "D", "F", "G", "H", "J", "K", "L">>,
       <<"Z", "X", "C", "V", "B", "N", "M">> >>

null == -1

----------------------------------------------------------------------------
(* JavaScript string and array primitives used by the component *)

Range(s) == {s[i] : i \in DOMAIN s}

LowerCaseLetters ==
    <<"a", "b", "c", "d", "e", "f", "g", "h", "i", "j", "k", "l", "m",
      "n", "o", "p", "q", "r", "s", "t", "u", "v", "w", "x", "y", "z">>

UpperCaseLetters ==
    <<"A", "B", "C", "D", "E", "F", "G", "H", "I", "J", "K", "L", "M",
      "N", "O", "P", "Q", "R", "S", "T", "U", "V", "W", "X", "Y", "Z">>

\* String.prototype.toUpperCase, one character
UpperChar(c) ==
    IF \E i \in DOMAIN LowerCaseLetters : LowerCaseLetters[i] = c
    THEN UpperCaseLetters[CHOOSE i \in DOMAIN LowerCaseLetters : LowerCaseLetters[i] = c]
    ELSE c

\* String.prototype.toUpperCase
toUpperCase(s) == [i \in DOMAIN s |-> UpperChar(s[i])]

\* a value of type string | undefined
Str(chars) == [defined |-> TRUE, chars |-> chars]
undefined == [defined |-> FALSE, chars |-> <<>>]

\* !letter : undefined and the empty string are falsy
Falsy(letter) == ~letter.defined \/ Len(letter.chars) = 0

\* row.includes(upperLetter): the row holds one-character strings
RowIncludes(row, upper) == \E i \in DOMAIN row : <<row[i]>> = upper

----------------------------------------------------------------------------
(* Derived values of a render: lines 42-43 *)

currentWordData == WORDS[currentWordIndex + 1]
currentWord == toUpperCase(currentWordData.word)

\* currentWord.split('')
split(s) == [i \in DOMAIN s |-> <<s[i]>>]

\* Truthiness of startTime in `isLastWord && startTime` (line 97)
Truthy(t) == t # null /\ t # 0

----------------------------------------------------------------------------
(* handleGuess: lines 53-65 *)

\* The updater without the early return of line 60: always a new Set
addLetterAlwaysNew(prev, upperLetter) ==
    [set |-> prev \cup {upperLetter}, fresh |-> TRUE]

\* The updater passed to setGuessedLetters (lines 59-64).  fresh tells
\* whether the returned Set is a new object: React re-renders and re-runs
\* the effects that depend on guessedLetters only for a new object.
addLetter(prev, upperLetter) ==
    IF upperLetter \in prev
    THEN [set |-> prev, fresh |-> FALSE]
    ELSE [set |-> prev \cup {upperLetter}, fresh |-> TRUE]

\* isLetter looking at the first character only
isLetterFirstChar(upperLetter) ==
    \E r \in DOMAIN QWERTY_ROWS : \E i \in DOMAIN QWERTY_ROWS[r] :
        QWERTY_ROWS[r][i] = upperLetter[1]

\* isLetter (line 56)
isLetter(upperLetter) ==
    \E r \in DOMAIN QWERTY_ROWS : RowIncludes(QWERTY_ROWS[r], upperLetter)

\* handleGuess that inserts the letter as typed, not upperLetter
handleGuessAsTyped(gs, prev, letter) ==
    IF Falsy(letter) \/ gs # "playing"
    THEN [set |-> prev, fresh |-> FALSE]
    ELSE IF ~isLetter(toUpperCase(letter.chars))
         THEN [set |-> prev, fresh |-> FALSE]
         ELSE addLetter(prev, letter.chars)

\* handleGuess as created by a render whose gameState is gs, applied to the
\* guessed set prev
handleGuess(gs, prev, letter) ==
    IF Falsy(letter) \/ gs # "playing"
    THEN [set |-> prev, fresh |-> FALSE]
    ELSE IF ~isLetter(toUpperCase(letter.chars))
         THEN [set |-> prev, fresh |-> FALSE]
         ELSE addLetter(prev, toUpperCase(letter.chars))

\* handleKeyDown (lines 69-72) of the listener registered by a render whose
\* gameState is gs
handleKeyDown(gs, prev, key) ==
    IF gs # "playing"
    THEN [set |-> prev, fresh |-> FALSE]
    ELSE handleGuess(gs, prev, Str(key))

\* unrevealed without the filter of line 80
unrevealedUnfiltered(word, guessed) == split(word)

\* unrevealed (lines 79-81)
unrevealed(word, guessed) == SelectSeq(split(word), LAMBDA char : char \notin guessed)

\* allGuessed with some() in place of every()
allGuessedSome(word, guessed) == \E i \in DOMAIN word : split(word)[i] \in guessed

\* allGuessed by counting the guessed letters of the word against its length
allGuessedByCount(word, guessed) ==
    Cardinality({g \in guessed : \E i \in DOMAIN word : split(word)[i] = g}) = Len(word)

\* allGuessed (line 92)
allGuessed(word, guessed) == \A i \in DOMAIN word : split(word)[i] \in guessed

\* isLastWord (line 95)
isLastWord(index) == index = Len(WORDS) - 1

\* The win check without the early return of line 90
winCheckAnyPhase(gs, index, guessed, start, total, time) ==
    IF allGuessed(toUpperCase(WORDS[index + 1].word), guessed)
    THEN [gameState |-> "won",
          totalTime |-> IF isLastWord(index) /\ Truthy(start)
                        THEN (time - start) \div 1000
                        ELSE total,
          setTotalTime |-> isLastWord(index) /\ Truthy(start),
          confetti |-> TRUE]
    ELSE [gameState |-> gs, totalTime |-> total, setTotalTime |-> FALSE, confetti |-> FALSE]

\* The win check without the isLastWord test of line 97
winCheckEveryWord(gs, index, guessed, start, total, time) ==
    IF gs # "playing"
    THEN [gameState |-> gs, totalTime |-> total, setTotalTime |-> FALSE, confetti |-> FALSE]
    ELSE IF allGuessed(toUpperCase(WORDS[index + 1].word), guessed)
         THEN [gameState |-> "won",
               totalTime |-> IF Truthy(start) THEN (time - start) \div 1000 ELSE total,
               setTotalTime |-> Truthy(start),
               confetti |-> TRUE]
         ELSE [gameState |-> gs, totalTime |-> total, setTotalTime |-> FALSE, confetti |-> FALSE]

\* The win check (lines 89-108) applied to the state of a render: the state
\* it leaves, whether setTotalTime was called (line 98) and whether
\* confetti() was called (line 101)
winCheck(gs, index, guessed, start, total, time) ==
    IF gs # "playing"
    THEN [gameState |-> gs, totalTime |-> total, setTotalTime |-> FALSE, confetti |-> FALSE]
    ELSE IF allGuessed(toUpperCase(WORDS[index + 1].word), guessed)
         THEN [gameState |-> "won",
               totalTime |-> IF isLastWord(index) /\ Truthy(start)
                             THEN (time - start) \div 1000
                             ELSE total,
               setTotalTime |-> isLastWord(index) /\ Truthy(start),
               confetti |-> TRUE]
         ELSE [gameState |-> gs, totalTime |-> total, setTotalTime |-> FALSE, confetti |-> FALSE]

\* nextWord that keeps the guessed set
nextWordKeepGuessed(gs, index, guessed) ==
    IF index < Len(WORDS) - 1
    THEN [gameState |-> "playing", currentWordIndex |-> index + 1, guessedLetters |-> guessed]
    ELSE [gameState |-> "start", currentWordIndex |-> index, guessedLetters |-> guessed]

\* nextWord with the comparison of line 111 off by one
nextWordOffByOne(gs, index, guessed) ==
    IF index < Len(WORDS)
    THEN [gameState |-> "playing", currentWordIndex |-> index + 1, guessedLetters |-> {}]
    ELSE [gameState |-> "start", currentWordIndex |-> index, guessedLetters |-> guessed]

\* nextWord that skips a word
nextWordSkip(gs, index, guessed) ==
    IF index < Len(WORDS) - 1
    THEN [gameState |-> "playing", currentWordIndex |-> index + 2, guessedLetters |-> {}]
    ELSE [gameState |-> "start", currentWordIndex |-> index, guessedLetters |-> guessed]

\* nextWord (lines 110-118): the state it leaves
nextWord(gs, index, guessed) ==
    IF index < Len(WORDS) - 1
    THEN [gameState |-> "playing", currentWordIndex |-> index + 1, guessedLetters |-> {}]
    ELSE [gameState |-> "start", currentWordIndex |-> index, guessedLetters |-> guessed]

\* handleStart without setGuessedLetters(new Set())
handleStartKeepGuessed(time) ==
    [gameState |-> "playing", currentWordIndex |-> 0, guessedLetters |-> guessedLetters,
     startTime |-> time, totalTime |-> 0]

\* handleStart without setCurrentWordIndex(0)
handleStartKeepIndex(time) ==
    [gameState |-> "playing", currentWordIndex |-> currentWordIndex, guessedLetters |-> {},
     startTime |-> time, totalTime |-> 0]

\* handleStart (lines 45-51): the state it leaves
handleStart(time) ==
    [gameState |-> "playing", currentWordIndex |-> 0, guessedLetters |-> {},
     startTime |-> time, totalTime |-> 0]

----------------------------------------------------------------------------
(* Rendering of the playing view: lines 166-201 *)

\* a slot of the word display (line 175): the character or ""
letterSlot(word, guessed, i) ==
    IF split(word)[i] \in guessed THEN split(word)[i] ELSE <<>>

\* the word display (lines 167-177)
wordDisplay(word, guessed) == [i \in DOMAIN word |-> letterSlot(word, guessed, i)]

\* currentWord.includes(char), char a one-character string
includes(word, char) == \E i \in DOMAIN word : word[i] = char

\* isGuessed (line 184)
isGuessed(char, guessed) == <<char>> \in guessed

\* isCorrect (line 185)
isCorrect(char, guessed, word) == isGuessed(char, guessed) /\ includes(word, char)

\* isIncorrect without the negation of line 186
isIncorrectNotNegated(char, guessed, word) == isGuessed(char, guessed) /\ includes(word, char)

\* isIncorrect (line 186)
isIncorrect(char, guessed, word) == isGuessed(char, guessed) /\ ~includes(word, char)

\* the disabled attribute of a key (line 191)
keyDisabled(char, guessed) == isGuessed(char, guessed)

\* the classes of a key (line 192)
keyClassName(char, guessed, word) ==
    {"key"} \cup (IF isCorrect(char, guessed, word) THEN {"correct"} ELSE {})
            \cup (IF isIncorrect(char, guessed, word) THEN {"incorrect"} ELSE {})

\* the keys of the virtual keyboard (lines 181-183)
KeyboardKeys == UNION {Range(QWERTY_ROWS[r]) : r \in DOMAIN QWERTY_ROWS}

----------------------------------------------------------------------------
(* Inputs *)

\* the letters of the words, one letter of no word
PressedLetters == UNION {Range(WORDS[i].word) : i \in DOMAIN WORDS} \cup {"Z"}

\* keys of the virtual keyboard that get clicked
VirtualKeys == {c \in UNION {Range(QWERTY_ROWS[r]) : r \in DOMAIN QWERTY_ROWS} : c \in PressedLetters}

\* KeyboardEvent.key values of the physical keyboard
PhysicalKeys ==
    {<<"t">>, <<"O">>, <<"z">>, <<"5">>, <<"E", "n", "t", "e", "r">>}

Event(op, arg) == [op |-> op, arg |-> arg]

----------------------------------------------------------------------------
(* The component *)

Init ==
    /\ gameState = "start"
    /\ currentWordIndex = 0
    /\ guessedLetters = {}
    /\ startTime = null
    /\ totalTime = 0
    /\ now \in {0, TickMs}
    /\ effectsPending = TRUE
    /\ listenerState = "none"
    /\ confettiLog = <<>>
    /\ totalTimeSets = 0
    /\ lastEvent = Event("mount", undefined)

\* "Mulai Bermain!" (line 142), rendered in the start view (line 129)
HandleStartClick ==
    /\ gameState = "start"
    /\ LET s == handleStart(now) IN
        /\ gameState' = s.gameState
        /\ currentWordIndex' = s.currentWordIndex
        /\ guessedLetters' = s.guessedLetters
        /\ startTime' = s.startTime
        /\ totalTime' = s.totalTime
    /\ effectsPending' = TRUE
    /\ confettiLog' = <<>>
    /\ totalTimeSets' = 0
    /\ lastEvent' = Event("handleStart", undefined)
    /\ UNCHANGED <<now, listenerState>>

\* A key of the virtual keyboard (lines 189-196), rendered in the playing
\* view (line 148) and disabled once guessed (line 191)
KeyClick(char) ==
    /\ gameState = "playing"
    /\ <<char>> \notin guessedLetters
    /\ LET r == handleGuess(gameState, guessedLetters, Str(<<char>>)) IN
        /\ guessedLetters' = r.set
        /\ effectsPending' = (effectsPending \/ r.fresh)
    /\ lastEvent' = Event("keyClick", Str(<<char>>))
    /\ UNCHANGED <<gameState, currentWordIndex, startTime, totalTime, now,
                   listenerState, confettiLog, totalTimeSets>>

\* A keydown event on window (lines 69-74), delivered to the registered
\* listener
KeyDown(key) ==
    /\ listenerState # "none"
    /\ LET r == handleKeyDown(listenerState, guessedLetters, key) IN
        /\ guessedLetters' = r.set
        /\ effectsPending' = (effectsPending \/ r.fresh)
    /\ lastEvent' = Event("keyDown", Str(key))
    /\ UNCHANGED <<gameState, currentWordIndex, startTime, totalTime, now,
                   listenerState, confettiLog, totalTimeSets>>

HintClickNotApplied ==
    /\ gameState = "playing"
    /\ LET u == unrevealed(currentWord, guessedLetters) IN
        IF Len(u) > 0
        THEN \E k \in 1..Len(u) : lastEvent' = Event("hint", Str(u[k]))
        ELSE lastEvent' = Event("hint", undefined)
    /\ UNCHANGED <<gameState, currentWordIndex, guessedLetters, startTime, totalTime,
                   now, effectsPending, listenerState, confettiLog, totalTimeSets>>

\* "Tombol Bantuan" (line 203), rendered in the playing view: handleHint
\* (lines 78-87) with Math.random() choosing the index
HintClick ==
    /\ gameState = "playing"
    /\ LET u == unrevealed(currentWord, guessedLetters) IN
        IF Len(u) > 0
        THEN \E k \in 1..Len(u) : \E randomLetter \in {u[k]} :
                LET r == handleGuess(gameState, guessedLetters, Str(randomLetter)) IN
                /\ guessedLetters' = r.set
                /\ effectsPending' = (effectsPending \/ r.fresh)
                /\ lastEvent' = Event("hint", Str(randomLetter))
        ELSE /\ UNCHANGED <<guessedLetters, effectsPending>>
             /\ lastEvent' = Event("hint", undefined)
    /\ UNCHANGED <<gameState, currentWordIndex, startTime, totalTime, now,
                   listenerState, confettiLog, totalTimeSets>>

NextWordClickAnyPhase ==
    /\ currentWordIndex < Len(WORDS) - 1
    /\ LET s == nextWord(gameState, currentWordIndex, guessedLetters) IN
        /\ gameState' = s.gameState
        /\ currentWordIndex' = s.currentWordIndex
        /\ guessedLetters' = s.guessedLetters
    /\ effectsPending' = TRUE
    /\ lastEvent' = Event("nextWord", undefined)
    /\ UNCHANGED <<startTime, totalTime, now, listenerState, confettiLog, totalTimeSets>>

\* "Kata Selanjutnya" (lines 240-242), rendered in the won view while the
\* word is not the last one (line 239)
NextWordClick ==
    /\ gameState = "won"
    /\ currentWordIndex < Len(WORDS) - 1
    /\ LET s == nextWord(gameState, currentWordIndex, guessedLetters) IN
        /\ gameState' = s.gameState
        /\ currentWordIndex' = s.currentWordIndex
        /\ guessedLetters' = s.guessedLetters
    /\ effectsPending' = TRUE
    /\ lastEvent' = Event("nextWord", undefined)
    /\ UNCHANGED <<startTime, totalTime, now, listenerState, confettiLog, totalTimeSets>>

\* "Main Lagi!" (lines 244-246), rendered in the won view on the last word
RestartClick ==
    /\ gameState = "won"
    /\ ~(currentWordIndex < Len(WORDS) - 1)
    /\ gameState' = "start"
    /\ effectsPending' = TRUE
    /\ lastEvent' = Event("restart", undefined)
    /\ UNCHANGED <<currentWordIndex, guessedLetters, startTime, totalTime, now,
                   listenerState, confettiLog, totalTimeSets>>

\* The passive effects of the last commit: the keydown listener of this
\* render replaces the registered one (lines 68-76), and the win check runs
\* (lines 89-108); its setGameState commits a render whose effects are due
RunEffects ==
    /\ effectsPending
    /\ listenerState' = gameState
    /\ LET w == winCheck(gameState, currentWordIndex, guessedLetters,
                         startTime, totalTime, now) IN
        /\ gameState' = w.gameState
        /\ totalTime' = w.totalTime
        /\ confettiLog' = IF w.confetti /\ Len(confettiLog) < MaxLog
                          THEN Append(confettiLog, currentWordIndex)
                          ELSE confettiLog
        /\ totalTimeSets' = IF w.setTotalTime /\ totalTimeSets < MaxLog
                            THEN totalTimeSets + 1
                            ELSE totalTimeSets
        /\ effectsPending' = (w.gameState # gameState)
    /\ lastEvent' = Event("effects", undefined)
    /\ UNCHANGED <<currentWordIndex, guessedLetters, startTime, now>>

\* Time passes
Tick ==
    /\ now < MaxTicks * TickMs
    /\ now' = now + TickMs
    /\ lastEvent' = Event("tick", undefined)
    /\ UNCHANGED <<gameState, currentWordIndex, guessedLetters, startTime,
                   totalTime, effectsPending, listenerState, confettiLog, totalTimeSets>>

Next ==
    \/ HandleStartClick
    \/ \E char \in VirtualKeys : KeyClick(char)
    \/ \E key \in PhysicalKeys : KeyDown(key)
    \/ HintClick
    \/ NextWordClick
    \/ RestartClick
    \/ RunEffects
    \/ Tick

Spec == Init /\ [][Next]_vars

\* The steps of Next while the clock stands still: which step comes next
\* never depends on Date.now(), which only feeds startTime (line 49) and
\* totalTime (line 98).
NextNoTick ==
    \/ HandleStartClick
    \/ \E char \in VirtualKeys : KeyClick(char)
    \/ \E key \in PhysicalKeys : KeyDown(key)
    \/ HintClick
    \/ NextWordClick
    \/ RestartClick
    \/ RunEffects

\* Scheduling: React runs the passive effects of every commit (lines 68-108),
\* and the player keeps using the hint button (line 203) while it is shown
\* and the next-word button (lines 239-242) while it is shown.
FairSpec ==
    /\ Init
    /\ [][NextNoTick]_vars
    /\ WF_vars(RunEffects)
    /\ WF_vars(HintClick)
    /\ WF_vars(NextWordClick)

TypeOK ==
    /\ gameState \in {"start", "playing", "won"}
    /\ currentWordIndex \in 0..(Len(WORDS) - 1)
    /\ startTime \in {null} \cup 0..(MaxTicks * TickMs)
    /\ totalTime \in Nat
    /\ effectsPending \in BOOLEAN
    /\ listenerState \in {"none", "start", "playing", "won"}

----------------------------------------------------------------------------
(* Properties *)

\* values handleGuess can be called with that are not a single Latin letter
NonLetterInputs ==
    {undefined, Str(<<>>), Str(<<"5">>), Str(<<";">>), Str(<<" ">>),
     Str(<<"E", "n", "t", "e", "r">>), Str(<<"S", "h", "i", "f", "t">>),
     Str(<<"t", "t">>)}

\* how often confetti() fired for word index i since the last handleStart
Celebrations(log, i) == Cardinality({k \in DOMAIN log : log[k] = i})

\* C1: in every reachable state, if the phase is Won then every character
\* of the current word is a member of guessed.
C1_WonImpliesAllGuessed ==
    gameState = "won" =>
        \A i \in DOMAIN currentWord : <<currentWord[i]>> \in guessedLetters

C1_Witness ==
    /\ gameState = "won"
    /\ currentWordIndex = 1
    /\ guessedLetters = {<<"O">>, <<"P">>, <<"R">>}

\* C2: for every word, whatever the order of the guesses and the wrong
\* letters among them, the phase goes from Playing to Won exactly once: only
\* when no letter of the word is missing (never earlier), the win check is
\* due as soon as the last missing letter is guessed and the word is left
\* only from Won (never skipped), and the celebration of a word fires once.
C2_WinStep ==
    /\ (gameState = "playing" /\ gameState' = "won") =>
          /\ \A i \in DOMAIN currentWord : <<currentWord[i]>> \in guessedLetters
          /\ Celebrations(confettiLog, currentWordIndex) = 0
          /\ Celebrations(confettiLog', currentWordIndex) = 1
    /\ (gameState = "playing" /\ (\A i \in DOMAIN currentWord : <<currentWord[i]>> \in guessedLetters))
          => effectsPending
    /\ gameState = "playing" =>
          /\ currentWordIndex' = currentWordIndex
          /\ gameState' \in {"playing", "won"}
    /\ \A i \in 0..(Len(WORDS) - 1) : Celebrations(confettiLog', i) <= 1
    /\ gameState' = "won" => Celebrations(confettiLog', currentWordIndex') = 1

C3_Twice ==
    \A gs \in {"start", "playing", "won"} :
    \A l \in {Str(k) : k \in PhysicalKeys} \cup {Str(<<c>>) : c \in VirtualKeys} :
        LET once == handleGuess(gs, guessedLetters, l)
            twice == handleGuess(gs, once.set, l)
        IN  twice = [set |-> once.set, fresh |-> FALSE]

C3_RepeatedKeyDown ==
    \A key \in PhysicalKeys :
        (KeyDown(key) /\ toUpperCase(key) \in guessedLetters) =>
            UNCHANGED <<gameState, currentWordIndex, guessedLetters, startTime,
                        totalTime, effectsPending, confettiLog>>

C3_RepeatedGuessNoOp == [](C3_Twice) /\ [][C3_RepeatedKeyDown]_vars

\* a key of a guessed letter pressed while playing, nothing became due
C3_Witness ==
    /\ lastEvent = Event("keyDown", Str(<<"t">>))
    /\ <<"T">> \in guessedLetters
    /\ gameState = "playing"
    /\ listenerState = "playing"
    /\ ~effectsPending

\* C4: an input that is not a single Latin letter never changes guessed and
\* never changes the phase, from the virtual or the physical keyboard; a
\* single letter, lower or upper case, is accepted as its uppercase form.
C4_Filter ==
    /\ \A gs \in {"start", "playing", "won"} : \A l \in NonLetterInputs :
          /\ handleGuess(gs, guessedLetters, l) = [set |-> guessedLetters, fresh |-> FALSE]
          /\ l.defined =>
                handleKeyDown(gs, guessedLetters, l.chars) = [set |-> guessedLetters, fresh |-> FALSE]
    /\ \A i \in DOMAIN UpperCaseLetters :
          \A c \in {LowerCaseLetters[i], UpperCaseLetters[i]} :
              /\ handleGuess("playing", guessedLetters, Str(<<c>>)).set
                    = guessedLetters \cup {<<UpperCaseLetters[i]>>}
              /\ handleKeyDown("playing", guessedLetters, <<c>>).set
                    = guessedLetters \cup {<<UpperCaseLetters[i]>>}

C4_NonLetterStep ==
    (lastEvent'.op \in {"keyDown", "keyClick"} /\ lastEvent'.arg \in NonLetterInputs) =>
        UNCHANGED <<gameState, currentWordIndex, guessedLetters, startTime,
                    totalTime, effectsPending, confettiLog>>

C4_NonLettersIgnored == [](C4_Filter) /\ [][C4_NonLetterStep]_vars

\* Enter pressed while playing, with the listener of the playing render
C4_Witness ==
    /\ lastEvent = Event("keyDown", Str(<<"E", "n", "t", "e", "r">>))
    /\ gameState = "playing"
    /\ listenerState = "playing"
    /\ guessedLetters = {<<"T">>}

\* C5: a guess submitted by virtual key, physical key or hint while the
\* phase is Start or Won leaves phase, currentIndex, guessed, startTime and
\* totalTime unchanged.
C5_GuessStep ==
    (gameState \in {"start", "won"} /\ lastEvent'.op \in {"keyClick", "keyDown", "hint"}) =>
        UNCHANGED <<gameState, currentWordIndex, guessedLetters, startTime, totalTime>>

C5_GuessOutsidePlayingIgnored == [][C5_GuessStep]_vars

\* C6: a letter selected by hint() occurs in the current word and is not
\* in guessed at the time of the call, hint() adds exactly that letter to
\* guessed, and with every letter of the word guessed hint() changes nothing.
C6_HintStep ==
    lastEvent'.op = "hint" =>
        IF lastEvent'.arg.defined
        THEN /\ \E i \in DOMAIN currentWord : <<currentWord[i]>> = lastEvent'.arg.chars
             /\ lastEvent'.arg.chars \notin guessedLetters
             /\ guessedLetters' = guessedLetters \cup {lastEvent'.arg.chars}
             /\ UNCHANGED <<gameState, currentWordIndex, startTime, totalTime>>
        ELSE /\ \A i \in DOMAIN currentWord : <<currentWord[i]>> \in guessedLetters
             /\ UNCHANGED <<gameState, currentWordIndex, guessedLetters, startTime,
                            totalTime, effectsPending, confettiLog>>

C6_HintSelectsMissingLetter == [][C6_HintStep]_vars

\* the hint revealed O of OPOR after P was guessed
C6_Witness ==
    /\ lastEvent = Event("hint", Str(<<"O">>))
    /\ currentWordIndex = 1
    /\ guessedLetters = {<<"P">>, <<"O">>}

\* C7: advance() from Won on a word that is not the last one leads to
\* Playing with currentIndex increased by exactly 1 and guessed empty;
\* startTime and totalTime are unchanged.
C7_AdvanceStep ==
    (NextWordClick \/ lastEvent'.op = "nextWord") =>
        /\ gameState = "won"
        /\ currentWordIndex < Len(WORDS) - 1
        /\ gameState' = "playing"
        /\ currentWordIndex' = currentWordIndex + 1
        /\ guessedLetters' = {}
        /\ UNCHANGED <<startTime, totalTime>>

C7_AdvanceToNextWord == [][C7_AdvanceStep]_vars

\* advanced to the second word after the first one was won
C7_Witness ==
    /\ lastEvent = Event("nextWord", undefined)
    /\ gameState = "playing"
    /\ currentWordIndex = 1
    /\ guessedLetters = {}
    /\ confettiLog = <<0>>

\* C8: advance() from Won on the last word leads to Start, never to Playing
\* and never past the last index, for nextWord and for the restart button.
C8_NextWordOnLast ==
    (gameState = "won" /\ currentWordIndex = Len(WORDS) - 1) =>
        LET s == nextWord(gameState, currentWordIndex, guessedLetters)
        IN  s.gameState = "start" /\ s.currentWordIndex = currentWordIndex

C8_LastWordStep ==
    /\ (RestartClick \/ lastEvent'.op = "restart") =>
          /\ gameState = "won"
          /\ currentWordIndex = Len(WORDS) - 1
          /\ gameState' = "start"
    /\ (gameState = "won" /\ currentWordIndex = Len(WORDS) - 1) =>
          /\ gameState' \in {"won", "start"}
          /\ currentWordIndex' = currentWordIndex

C8_AdvanceOnLastWord == [](C8_NextWordOnLast) /\ [][C8_LastWordStep]_vars

\* back on the title screen after the last word
C8_Witness ==
    /\ lastEvent = Event("restart", undefined)
    /\ gameState = "start"
    /\ currentWordIndex = Len(WORDS) - 1
    /\ confettiLog = <<0, 1>>

\* C9: currentIndex always lies in [0, wordList.length); the only step that
\* increases it is advance(), by exactly 1 and only when it is not the last
\* index; the only other change is start() setting it to 0.
C9_IndexInRange == currentWordIndex \in 0..(Len(WORDS) - 1)

C9_IndexStep ==
    currentWordIndex' # currentWordIndex =>
        \/ /\ lastEvent'.op = "nextWord"
           /\ currentWordIndex < Len(WORDS) - 1
           /\ currentWordIndex' = currentWordIndex + 1
        \/ /\ lastEvent'.op = "handleStart"
           /\ currentWordIndex' = 0

C9_IndexOnlyAdvances == [](C9_IndexInRange) /\ [][C9_IndexStep]_vars

\* a second playthrough started from the index left by the first
C9_Witness ==
    /\ lastEvent = Event("handleStart", undefined)
    /\ currentWordIndex = 0
    /\ gameState = "playing"
    /\ startTime = MaxTicks * TickMs

\* C10: guessed only ever contains uppercase letters A..Z, and only grows
\* except at start() (Start to Playing) and at advance() to the next word
\* (Won to Playing), which empty it; a guess, a hint, the win check and the
\* return to Start never remove a letter.
C10_UppercaseOnly ==
    \A g \in guessedLetters : \E i \in DOMAIN UpperCaseLetters : g = <<UpperCaseLetters[i]>>

C10_GuessedStep ==
    ~(guessedLetters \subseteq guessedLetters') =>
        /\ guessedLetters' = {}
        /\ gameState' = "playing"
        /\ \/ lastEvent'.op = "handleStart" /\ gameState = "start"
           \/ lastEvent'.op = "nextWord" /\ gameState = "won"

C10_GuessedLettersGrow == [](C10_UppercaseOnly) /\ [][C10_GuessedStep]_vars

\* lowercase t typed on the physical keyboard is held as T
C10_Witness ==
    /\ lastEvent = Event("keyDown", Str(<<"t">>))
    /\ guessedLetters = {<<"H">>, <<"T">>}
    /\ effectsPending

\* C11: within one playthrough (from a start() to the next one) the win
\* check sets totalTime at most once, and only in the step in which the last
\* word is won: not when an earlier word is won and not a second time.
C11_TotalTimeStep ==
    /\ (totalTimeSets' # totalTimeSets /\ lastEvent'.op # "handleStart") =>
          /\ lastEvent'.op = "effects"
          /\ gameState = "playing" /\ gameState' = "won"
          /\ currentWordIndex = Len(WORDS) - 1
          /\ totalTimeSets = 0 /\ totalTimeSets' = 1
    /\ totalTime' # totalTime =>
          \/ lastEvent'.op = "handleStart" /\ totalTime' = 0
          \/ totalTimeSets' = totalTimeSets + 1
    /\ totalTimeSets' <= 1

C11_TotalTimeSetOnce == [][C11_TotalTimeStep]_vars

\* the last word won a second after the start
C11_Witness ==
    /\ gameState = "won"
    /\ currentWordIndex = Len(WORDS) - 1
    /\ totalTimeSets = 1
    /\ totalTime = 1
    /\ now - startTime = 2 * TickMs

\* C12: when the last word is won, totalTime becomes
\* floor((now - startTime) / 1000), a non-negative integer, for every value
\* of the timestamp recorded by start().
C12_LastWinStep ==
    (gameState = "playing" /\ gameState' = "won" /\ currentWordIndex = Len(WORDS) - 1) =>
        /\ totalTime' = (now - startTime) \div 1000
        /\ totalTime' >= 0

C12_TotalTimeIsElapsedSeconds == [][C12_LastWinStep]_vars

\* C13: start() always yields phase Playing with currentIndex 0, guessed
\* empty, a freshly recorded startTime and totalTime reset, whatever the
\* state before it; its result does not depend on the state it is called in,
\* so a second start() gives the same state apart from the timestamp.
C13_StartResult ==
    handleStart(now) = [gameState |-> "playing", currentWordIndex |-> 0,
                        guessedLetters |-> {}, startTime |-> now, totalTime |-> 0]

C13_StartStep ==
    lastEvent'.op = "handleStart" =>
        /\ gameState' = "playing"
        /\ currentWordIndex' = 0
        /\ guessedLetters' = {}
        /\ startTime' = now
        /\ totalTime' = 0

C13_StartResetsGame == [](C13_StartResult) /\ [][C13_StartStep]_vars

\* a second playthrough started a second and a half after the first, while
\* the listener of the won view is still registered
C13_Witness ==
    /\ lastEvent = Event("handleStart", undefined)
    /\ listenerState = "won"
    /\ gameState = "playing"
    /\ currentWordIndex = 0
    /\ guessedLetters = {}
    /\ totalTime = 0
    /\ startTime = 3 * TickMs

\* C14: for each of the 26 letters the keyboard feedback is exactly one of
\* unguessed, correct, incorrect, decided by guessed and the current word
\* alone: correct iff guessed and in the word, incorrect iff guessed and not
\* in the word, unguessed iff not guessed; a key is disabled iff it is not
\* unguessed.
C14_KeyboardFeedback ==
    /\ Cardinality(KeyboardKeys) = 26
    /\ \A char \in KeyboardKeys :
          LET classes == keyClassName(char, guessedLetters, currentWord)
              inWord == \E i \in DOMAIN currentWord : currentWord[i] = char
              guessed == <<char>> \in guessedLetters
          IN  /\ classes \in {{"key"}, {"key", "correct"}, {"key", "incorrect"}}
              /\ "correct" \in classes <=> (guessed /\ inWord)
              /\ "incorrect" \in classes <=> (guessed /\ ~inWord)
              /\ classes = {"key"} <=> ~guessed
              /\ keyDisabled(char, guessedLetters) <=> classes # {"key"}

\* word THR with Z and T guessed
C14_Witness ==
    /\ gameState = "playing"
    /\ currentWordIndex = 0
    /\ guessedLetters = {<<"Z">>, <<"T">>}
    /\ keyClassName("Z", guessedLetters, currentWord) = {"key", "incorrect"}
    /\ keyClassName("T", guessedLetters, currentWord) = {"key", "correct"}
    /\ keyClassName("H", guessedLetters, currentWord) = {"key"}

\* C15: reveal and win go by set membership, not by counting: a position of
\* the word is shown iff its character is in guessed, so one guess reveals
\* every occurrence of a letter, and the word is won by the win check as
\* soon as its distinct letters are all in guessed, with as many correct
\* guesses as it has distinct letters.
C15_Reveal ==
    LET shown == wordDisplay(currentWord, guessedLetters) IN
    /\ \A i \in DOMAIN currentWord :
          /\ shown[i] # <<>> <=> <<currentWord[i]>> \in guessedLetters
          /\ shown[i] # <<>> => shown[i] = <<currentWord[i]>>
    /\ \A i, j \in DOMAIN currentWord :
          currentWord[i] = currentWord[j] => shown[i] = shown[j]
    /\ (gameState = "playing" /\ \A c \in Range(currentWord) : <<c>> \in guessedLetters)
          => effectsPending

C15_WinStep ==
    /\ (lastEvent'.op = "effects" /\ gameState = "playing"
          /\ \A c \in Range(currentWord) : <<c>> \in guessedLetters)
          => gameState' = "won"
    /\ (gameState = "playing" /\ gameState' = "won") =>
          Cardinality({g \in guessedLetters : \E c \in Range(currentWord) : g = <<c>>})
              = Cardinality(Range(currentWord))

C15_SetMembership == [](C15_Reveal) /\ [][C15_WinStep]_vars

\* one guess of O shows both O of OPOR
C15_Witness ==
    /\ gameState = "playing"
    /\ currentWordIndex = 1
    /\ guessedLetters = {<<"O">>}
    /\ wordDisplay(currentWord, guessedLetters) = <<<<"O">>, <<>>, <<"O">>, <<>>>>

\* C16: the guess that completes the word and the transition to Won form
\* one step: no input is accepted between the update that adds the last
\* missing letter and the phase becoming Won, so guessed is the same at both
\* moments, and the win check celebrates once.
C16_CompletedStep ==
    /\ (gameState = "playing" /\ \A i \in DOMAIN currentWord : <<currentWord[i]>> \in guessedLetters)
          => guessedLetters' = guessedLetters
    /\ Celebrations(confettiLog', currentWordIndex') <= 1

C16_GuessAndWinAtomic == [][C16_CompletedStep]_vars

\* C17: hint() draws from the word letters not yet guessed with equal
\* weight: every distinct unguessed letter of the current word is exactly
\* one candidate of the collection the random index ranges over.
C17_HintCandidatesDistinct ==
    gameState = "playing" =>
        LET u == unrevealed(currentWord, guessedLetters) IN
        /\ \A c \in Range(currentWord) :
              <<c>> \notin guessedLetters =>
                  Cardinality({k \in DOMAIN u : u[k] = <<c>>}) = 1
        /\ \A k \in DOMAIN u : u[k] \notin guessedLetters

\* C18 (as stated): nextWord invoked while the phase is Start or Playing is
\* a no-op that changes neither phase nor index nor guessed letters.
C18_NextWordNoOpOutsideWon ==
    gameState \in {"start", "playing"} =>
        nextWord(gameState, currentWordIndex, guessedLetters) =
            [gameState |-> gameState, currentWordIndex |-> currentWordIndex,
             guessedLetters |-> guessedLetters]

\* C18 (amended): nextWord has no phase guard, but it is only invoked from
\* the buttons of the won view, so every advance or restart starts in phase
\* Won with the current word complete, and the index moves off a word only
\* then (or back to 0 by handleStart): no word is skipped without being won.
C18_AdvanceStep ==
    /\ lastEvent'.op \in {"nextWord", "restart"} =>
          /\ gameState = "won"
          /\ allGuessed(currentWord, guessedLetters)
    /\ currentWordIndex' # currentWordIndex =>
          \/ lastEvent'.op = "handleStart" /\ gameState = "start"
          \/ /\ lastEvent'.op = "nextWord"
             /\ gameState = "won"
             /\ allGuessed(currentWord, guessedLetters)
             /\ Celebrations(confettiLog, currentWordIndex) = 1

C18_AdvanceOnlyFromWon == [][C18_AdvanceStep]_vars

C18_Witness ==
    /\ lastEvent = Event("nextWord", undefined)
    /\ gameState = "playing"
    /\ currentWordIndex = 1
    /\ guessedLetters = {}
    /\ listenerState = "won"
    /\ now = MaxTicks * TickMs

\* the distinct letters of the word that are not yet guessed
Missing(word, guessed) == {<<c>> : c \in Range(word)} \ guessed

\* C19: from any Playing state repeated hints reach Won for the current
\* word after exactly as many hints as the word has distinct unguessed
\* letters: every hint that finds a letter removes exactly that one letter
\* from the missing ones, a complete word in Playing always has the win
\* check pending, and under fair effects, hints and next-word clicks every
\* Playing state leads to Won on the same word and to Won on the last word.
C19_HintStep ==
    (lastEvent'.op = "hint" /\ lastEvent'.arg.defined) =>
        /\ gameState = "playing" /\ gameState' = "playing"
        /\ currentWordIndex' = currentWordIndex
        /\ lastEvent'.arg.chars \in Missing(currentWord, guessedLetters)
        /\ guessedLetters' = guessedLetters \cup {lastEvent'.arg.chars}
        /\ Cardinality(Missing(currentWord, guessedLetters')) =
               Cardinality(Missing(currentWord, guessedLetters)) - 1
        /\ effectsPending'

C19_CompleteIsPending ==
    (gameState = "playing" /\ Missing(currentWord, guessedLetters) = {})
        => effectsPending

C19_HintsReachWon ==
    /\ []C19_CompleteIsPending
    /\ [][C19_HintStep]_vars
    /\ \A i \in 0..(Len(WORDS) - 1) :
          (gameState = "playing" /\ currentWordIndex = i)
              ~> (gameState = "won" /\ currentWordIndex = i)
    /\ (gameState = "playing")
          ~> (gameState = "won" /\ isLastWord(currentWordIndex))

C19_Witness ==
    /\ lastEvent = Event("hint", Str(<<"R">>))
    /\ gameState = "playing"
    /\ currentWordIndex = 1
    /\ guessedLetters = {<<"O">>, <<"P">>, <<"R">>}
    /\ effectsPending
    /\ confettiLog = <<0>>

\* the word indices 0 .. n-1 in increasing order
FirstWords(n) == [k \in 1..n |-> k - 1]

\* C20: words are played in list order within a playthrough: in Playing on
\* word i the words won since the last handleStart are exactly 0 .. i-1 in
\* increasing order, in Won on word i they are 0 .. i, and a total time has
\* been recorded only after every word of the list was won in that order.
C20_PlayedInListOrder ==
    /\ gameState = "playing" => confettiLog = FirstWords(currentWordIndex)
    /\ gameState = "won" => confettiLog = FirstWords(currentWordIndex + 1)
    /\ totalTimeSets > 0 => confettiLog = FirstWords(Len(WORDS))

C20_Witness ==
    /\ gameState = "won"
    /\ isLastWord(currentWordIndex)
    /\ confettiLog = FirstWords(Len(WORDS))
    /\ totalTimeSets = 1
    /\ guessedLetters = {<<"O">>, <<"P">>, <<"R">>}
    /\ now = 2 * TickMs

====
